---- MODULE Spec2Model ----
(***************************************************************************)
(* Model of the two scripts of the repository:                             *)
(*   src/streamlit_app.py  the CSV Summary Explorer (format_bytes, the     *)
(*                         dataset loader and the report sections)        *)
(*   src/aifinger.py       the webcam finger counter (count_fingers and    *)
(*                         the capture / annotate / display loop)          *)
(* Three specifications share the variables: SpecFormat applies            *)
(* format_bytes to byte counts, SpecDash runs the dashboard script on an   *)
(* upload, SpecGesture runs the gesture loop.  The variables of the        *)
(* programs a specification does not run stay at their initial values.     *)
(***************************************************************************)
EXTENDS Integers, Sequences, FiniteSets, TLC

VARIABLES
    fb_arg,      \* format_bytes: the argument of the call
    fb_pc,       \* "call" before the call, "done" after it
    fb_out,      \* what the call produced (a Shown record, Raised or Fell)
    up,          \* dashboard: the uploaded file
    d_pc,        \* dashboard: position of the script run
    d_pos,       \* dashboard: read position of the upload's stream
    d_log,       \* dashboard: parse attempts of this run, in order
    df,          \* dashboard: the parsed dataset (NoDf before a parse)
    d_page,      \* dashboard: elements rendered on the page, in order
    d_slider,    \* dashboard: the preview slider as the widget holds it
    d_schema,    \* dashboard: schema_df as displayed
    d_top,       \* dashboard: the Top values tables placed so far
    d_overview,  \* dashboard: the three Overview metrics
    d_userK,     \* dashboard: slider value the user set (NoChoice: none)
    d_exc,       \* dashboard: exception that ended the run ("none")
    g_pc,        \* gesture loop: position in the loop
    g_cap,       \* gesture loop: "open" or "released" capture
    g_win,       \* gesture loop: "none", "shown" or "destroyed" window
    g_frame,     \* gesture loop: frame read in this iteration
    g_found,     \* gesture loop: hands the detector returned for the frame
    g_hands,     \* gesture loop: hands still to classify in this frame
    g_hand,      \* gesture loop: the hand the for loop is at (NoHand outside)
    g_fingers,   \* gesture loop: the fingers list count_fingers built for it
    g_count,     \* gesture loop: finger_count (kept until overwritten)
    g_parity,    \* gesture loop: parity (kept until overwritten)
    g_trace,     \* gesture loop: calls made in the current iteration
    g_key        \* gesture loop: key code the last poll returned

fbVars == <<fb_arg, fb_pc, fb_out>>
dashVars == <<up, d_pc, d_pos, d_log, df, d_page, d_slider, d_schema, d_top,
              d_overview, d_userK, d_exc>>
gestVars == <<g_pc, g_cap, g_win, g_frame, g_found, g_hands, g_hand,
              g_fingers, g_count, g_parity, g_trace, g_key>>
vars == <<fbVars, dashVars, gestVars>>

Min(a, b) == IF a < b THEN a ELSE b
Max(a, b) == IF a > b THEN a ELSE b

(***************************************************************************)
(* format_bytes (src/streamlit_app.py:5-10).                               *)
(*                                                                         *)
(* A number is [sig, exp]: sig is a little-endian sequence of base-1024    *)
(* limbs whose last limb is not 0 (<<>> is zero) and the value is          *)
(* sig * 1024^exp.  A Python int has exp >= 0; "num_bytes /= 1024" turns   *)
(* it into a float and lowers exp by one, which is exact in binary         *)
(* floating point as long as the significand fits 53 bits: inputs carry    *)
(* at most MaxSig limbs (10 * MaxSig bits).                                *)
(***************************************************************************)
Base == 1024
DoubleMaxExp == 1024
MaxSig == 3
MaxExp == 104

UNITS == <<"B", "KiB", "MiB", "GiB", "TiB">>

LimbVals == {0, 1, 16, 128, 1023}

Num(s, e) == [sig |-> s, exp |-> e]

RECURSIVE BitLen(_)
BitLen(d) == IF d = 0 THEN 0 ELSE 1 + BitLen(d \div 2)

\* int.bit_length() of a number with exp >= 0
BitLength(x) ==
    IF x.sig = <<>> THEN 0
    ELSE 10 * (Len(x.sig) + x.exp - 1) + BitLen(x.sig[Len(x.sig)])

\* num_bytes < 1024
Below1024(x) == x.sig = <<>> \/ Len(x.sig) + x.exp <= 1

\* int / 1024 raises OverflowError when the quotient is 2^1024 or more
TrueDivOverflows(x) == BitLength(x) - 10 > DoubleMaxExp

\* float (or int) / 1024
Div1024(x) == Num(x.sig, x.exp - 1)

\* the limb of weight 1024^(-i) of the fractional part, i >= 1
FracLimb(x, i) ==
    LET k == (-x.exp) - i + 1
    IN  IF k >= 1 /\ k <= Len(x.sig) THEN x.sig[k] ELSE 0

\* the integer part, as limbs (little-endian, possibly <<>>)
WholeLimbs(x) ==
    IF x.exp >= 0 THEN x.sig
    ELSE IF -x.exp >= Len(x.sig) THEN <<>>
    ELSE SubSeq(x.sig, (-x.exp) + 1, Len(x.sig))

RECURSIVE Increment(_)
Increment(s) ==
    IF s = <<>> THEN <<1>>
    ELSE IF s[1] + 1 < Base THEN <<s[1] + 1>> \o Tail(s)
    ELSE <<0>> \o Increment(Tail(s))

\* 100 * (fractional part), limb by limb from the lowest: the carry out of
\* limb i and the remainder limb left at it
RECURSIVE CarryAt(_, _)
CarryAt(x, i) ==
    IF i > -x.exp THEN 0
    ELSE (100 * FracLimb(x, i) + CarryAt(x, i + 1)) \div Base

RemAt(x, i) == (100 * FracLimb(x, i) + CarryAt(x, i + 1)) % Base

\* f"{num_bytes:.2f}": the value rounded to hundredths, ties to even
Format2f(x) ==
    IF x.exp >= 0 THEN [whole |-> x, cents |-> 0]
    ELSE
      LET f == -x.exp
          c == CarryAt(x, 1)
          top == RemAt(x, 1)
          low == \E i \in 2..f : RemAt(x, i) # 0
          roundUp == \/ top > Base \div 2
                     \/ top = Base \div 2 /\ low
                     \/ top = Base \div 2 /\ ~low /\ c % 2 = 1
          cc == IF roundUp THEN c + 1 ELSE c
          w == WholeLimbs(x)
      IN  IF cc = 100 THEN [whole |-> Num(Increment(w), 0), cents |-> 0]
          ELSE [whole |-> Num(w, 0), cents |-> cc]

Raised(what) == [kind |-> "raised", what |-> what]
Fell == [kind |-> "none"]
Shown(x, i) == [kind |-> "str", whole |-> Format2f(x).whole,
                cents |-> Format2f(x).cents, unit |-> UNITS[i]]

\* the loop of format_bytes from unit index i on; isInt: no division yet
RECURSIVE FormatLoop(_, _, _)
FormatLoop(x, i, isInt) ==
    IF i > Len(UNITS) THEN Fell
    ELSE IF Below1024(x) \/ UNITS[i] = "TiB" THEN Shown(x, i)
    ELSE IF isInt /\ TrueDivOverflows(x) THEN Raised("OverflowError")
    ELSE FormatLoop(Div1024(x), i + 1, FALSE)

format_bytes(n) == FormatLoop(n, 1, TRUE)

(***************************************************************************)
(* The dashboard script (src/streamlit_app.py:13-92).  The script runs     *)
(* top to bottom on every upload and on every change of the slider.        *)
(***************************************************************************)
MaxCols == 4
MaxRows == 12

NoDf == [rows |-> -1, cols |-> <<>>]
NoSlider == [min_value |-> 0, max_value |-> 0, value |-> 0,
             rows_to_show |-> 0, shown |-> 0]
NoOverview == [rows |-> -1, cols |-> -1, memory |-> Fell]
NoChoice == <<>>
NoUpload == [defects |-> <<>>, table |-> NoDf]

\* column labels are compared as integers; the i-th column's label
NameOf(i) == (3 * i) % 7

Col(dtype, missing, distinct) ==
    [dtype |-> dtype, missing |-> missing, distinct |-> distinct]

\* the columns read_csv infers for a file of n data rows: a header-only
\* file gives object columns; a column with a missing cell is float64 or
\* object, never int64 or bool
Profiles(n) ==
    IF n = 0 THEN {Col("object", 0, 0)}
    ELSE {Col("int64", 0, n),
          Col("float64", n, 0),
          Col("object", IF n >= 2 THEN 1 ELSE 0, IF n >= 2 THEN n - 1 ELSE n),
          Col("bool", 0, Min(2, n))}

Tables ==
    UNION {UNION {{[rows |-> n,
                    cols |-> [i \in 1..c |->
                               [name |-> NameOf(i), dtype |-> p[i].dtype,
                                missing |-> p[i].missing,
                                distinct |-> p[i].distinct]]] :
                   p \in [1..c -> Profiles(n)]} : c \in 1..MaxCols} :
           n \in 0..MaxRows}

\* the defects of a file in the order a parse meets them: "decode" is an
\* invalid byte sequence, "other" anything else read_csv rejects
DefectLists == {<<>>, <<"decode">>, <<"other">>,
                <<"decode", "other">>, <<"other", "decode">>}

Uploads == [defects : DefectLists, table : Tables]

\* pd.read_csv from stream position pos: what the attempt ends with
ParseOutcome(file, pos, lossy) ==
    LET seen == IF lossy
                THEN SelectSeq(file.defects, LAMBDA x : x # "decode")
                ELSE file.defects
    IN  IF pos # 0 THEN "other"
        ELSE IF seen = <<>> THEN "ok"
        ELSE IF seen[1] = "decode" THEN "UnicodeDecodeError"
        ELSE "other"

Attempt(mode, pos, res) == [mode |-> mode, from |-> pos, result |-> res]

\* uploaded_file.seek(0)
Rewind(pos) == 0

\* rounding a / b (a >= 0, b > 0) to the nearest integer, ties to even
RoundHalfEven(a, b) ==
    LET q == a \div b
        r == a % b
    IN  IF 2 * r > b \/ (2 * r = b /\ q % 2 = 1) THEN q + 1 ELSE q

\* a ratio rounded to 2 places, the "* 100" of line 53 left out
MissingPctUnscaled(missing, n) ==
    IF n # 0 THEN RoundHalfEven(missing * 100, n) ELSE missing * 0

\* missing_pct.round(2) of one column, in hundredths of a percent
MissingPct(missing, n) ==
    IF n # 0 THEN RoundHalfEven(missing * 100 * 100, n) ELSE missing * 0

SchemaRow(c, n) ==
    [column |-> c.name, dtype |-> c.dtype, missing |-> c.missing,
     pct |-> MissingPct(c.missing, n)]

\* sort_values(["missing_%", "column"], ascending=[False, True])
SchemaBefore(a, b) ==
    a.pct > b.pct \/ (a.pct = b.pct /\ a.column < b.column)

RECURSIVE InsertRow(_, _)
InsertRow(r, s) ==
    IF s = <<>> THEN <<r>>
    ELSE IF SchemaBefore(r, s[1]) THEN <<r>> \o s
    ELSE <<s[1]>> \o InsertRow(r, Tail(s))

RECURSIVE SortSchema(_)
SortSchema(s) ==
    IF s = <<>> THEN <<>> ELSE InsertRow(s[1], SortSchema(Tail(s)))

SchemaReport(t) ==
    SortSchema([i \in 1..Len(t.cols) |-> SchemaRow(t.cols[i], t.rows)])

IsNumber(c) == c.dtype \in {"int64", "float64"}
IsCategorical(c) == c.dtype \in {"object", "category", "bool"}

\* df.select_dtypes(include=["object", "category", "bool"]).columns.tolist()
CatCols(t) == SelectSeq(t.cols, IsCategorical)
NumCols(t) == SelectSeq(t.cols, IsNumber)

\* df.head(k): the number of rows shown
HeadRows(n, k) == Min(k, n)

\* the slider call of line 47 and the value it returns: the default on the
\* first run, the user's choice after a change
SliderMin == 5
SliderCap == 1000
DefaultCap == 50
PreviewSlider(n, choice) ==
    LET lo == SliderMin
        hi == Min(SliderCap, Max(SliderMin, n))
        dflt == Min(DefaultCap, n)
        k == IF choice = NoChoice THEN dflt ELSE choice[1]
    IN  [min_value |-> lo, max_value |-> hi, value |-> dflt,
         rows_to_show |-> k, shown |-> HeadRows(n, k)]

\* Top values: slots created, and the table of the idx-th (from 0)
\* categorical column
MaxColumns == 3
TopN == 10
TopSlots(ncat) == Min(MaxColumns, ncat)
TopSlotOf(idx) == idx % MaxColumns
\* value_counts(dropna=False).head(10): the rows of the table
TopRows(c) == Min(TopN, c.distinct + (IF c.missing > 0 THEN 1 ELSE 0))
TopTables(cat) ==
    [i \in 1..Len(cat) |->
        [column |-> cat[i].name, slot |-> TopSlotOf(i - 1),
         rows |-> TopRows(cat[i]),
         nan_row |-> cat[i].missing > 0 /\ cat[i].distinct < TopN]]

\* df.describe(include=["number"]) and df[cat_cols].describe(): pandas
\* raises ValueError ("No objects to concatenate") when no column is selected
Describe(cols) ==
    IF cols = <<>> THEN Raised("ValueError")
    ELSE [kind |-> "table", rows |-> Len(cols)]

\* int(df.memory_usage(deep=True).sum()): footprints the Overview formats
MemSamples == {Num(<<132>>, 0), Num(<<1023, 1023>>, 0)}

\* position of the stream after a read
AfterRead(pos) == Max(pos, 1)

FreshRun ==
    /\ d_pc' = "load"
    /\ d_pos' = 0
    /\ d_log' = <<>>
    /\ df' = NoDf
    /\ d_page' = <<>>
    /\ d_slider' = NoSlider
    /\ d_schema' = <<>>
    /\ d_top' = <<>>
    /\ d_overview' = NoOverview
    /\ d_exc' = "none"

\* lines 17-21: a file arrives and the script runs on it
Upload ==
    /\ d_pc = "idle"
    /\ \E f \in Uploads : up' = f
    /\ FreshRun
    /\ UNCHANGED <<d_userK, fbVars, gestVars>>

\* lines 23-25 and 30-32: the strict parse and the "except Exception" branch
StrictParse ==
    /\ d_pc = "load"
    /\ LET res == ParseOutcome(up, d_pos, FALSE)
       IN  /\ d_log' = Append(d_log, Attempt("strict", d_pos, res))
           /\ d_pos' = AfterRead(d_pos)
           /\ IF res = "ok"
              THEN /\ df' = up.table
                   /\ d_pc' = "overview"
                   /\ UNCHANGED d_page
              ELSE IF res = "UnicodeDecodeError"
              THEN /\ d_pc' = "fallback"
                   /\ UNCHANGED <<df, d_page>>
              ELSE /\ d_page' = Append(d_page, "error")
                   /\ d_pc' = "stopped"
                   /\ UNCHANGED df
    /\ UNCHANGED <<up, d_slider, d_schema, d_top, d_overview, d_userK, d_exc,
                   fbVars, gestVars>>

\* lines 26-29: the "except UnicodeDecodeError" branch; what it raises is
\* raised inside a handler, which the sibling "except Exception" does not see
LossyParse ==
    /\ d_pc = "fallback"
    /\ LET pos0 == Rewind(d_pos)
           res == ParseOutcome(up, pos0, TRUE)
       IN  /\ d_log' = Append(d_log, Attempt("lossy", pos0, res))
           /\ d_pos' = AfterRead(pos0)
           /\ IF res = "ok"
              THEN /\ df' = up.table
                   /\ d_pc' = "overview"
                   /\ UNCHANGED d_exc
              ELSE /\ d_pc' = "crashed"
                   /\ d_exc' = "ParserError"
                   /\ UNCHANGED df
    /\ UNCHANGED <<up, d_page, d_slider, d_schema, d_top, d_overview, d_userK,
                   fbVars, gestVars>>

\* lines 34-43
Overview ==
    /\ d_pc = "overview"
    /\ \E mem \in MemSamples :
         LET shown == format_bytes(mem)
         IN  IF shown.kind = "raised"
             THEN /\ d_pc' = "crashed"
                  /\ d_exc' = shown.what
                  /\ d_page' = Append(d_page, "Overview")
                  /\ UNCHANGED d_overview
             ELSE /\ d_overview' = [rows |-> df.rows, cols |-> Len(df.cols),
                                    memory |-> shown]
                  /\ d_page' = Append(d_page, "Overview")
                  /\ d_pc' = "preview"
                  /\ UNCHANGED d_exc
    /\ UNCHANGED <<up, d_pos, d_log, df, d_slider, d_schema, d_top, d_userK,
                   fbVars, gestVars>>

\* a slider call st.slider takes as it is: a range of more than one point
\* with the default inside it
SliderCallRegular(s) ==
    /\ s.min_value < s.max_value
    /\ s.min_value <= s.value
    /\ s.value <= s.max_value

\* what st.slider does with the call: a regular call is accepted; any other
\* call is accepted as it stands by some Streamlit versions (which widen
\* the bounds to hold the default) and rejected with StreamlitAPIException
\* by others
SliderAccepts(s) == IF SliderCallRegular(s) THEN {TRUE} ELSE {TRUE, FALSE}

\* lines 45-48
Preview ==
    /\ d_pc = "preview"
    /\ d_page' = Append(d_page, "Preview")
    /\ \E accepted \in SliderAccepts(PreviewSlider(df.rows, d_userK)) :
         IF accepted
         THEN /\ d_slider' = PreviewSlider(df.rows, d_userK)
              /\ d_pc' = "schema"
              /\ UNCHANGED d_exc
         ELSE /\ d_pc' = "crashed"
              /\ d_exc' = "StreamlitAPIException"
              /\ UNCHANGED d_slider
    /\ UNCHANGED <<up, d_pos, d_log, df, d_schema, d_top, d_overview, d_userK,
                   fbVars, gestVars>>

\* lines 50-62
Schema ==
    /\ d_pc = "schema"
    /\ d_schema' = SchemaReport(df)
    /\ d_page' = Append(d_page, "Schema")
    /\ d_pc' = "summary"
    /\ UNCHANGED <<up, d_pos, d_log, df, d_slider, d_top, d_overview, d_userK,
                   d_exc, fbVars, gestVars>>

\* lines 64-79
SummaryElements(t) ==
    LET num == Describe(NumCols(t))
        cat == CatCols(t)
    IN  IF num.kind = "raised" THEN <<"Summary">>
        ELSE <<"Summary">>
             \o (IF num.rows > 0 THEN <<"num_table">> ELSE <<"num_info">>)
             \o (IF Len(cat) > 0 THEN <<"cat_table">> ELSE <<"cat_info">>)

Summary ==
    /\ d_pc = "summary"
    /\ d_page' = d_page \o SummaryElements(df)
    /\ IF Describe(NumCols(df)).kind = "raised"
       THEN /\ d_pc' = "crashed"
            /\ d_exc' = Describe(NumCols(df)).what
       ELSE /\ d_pc' = "top"
            /\ UNCHANGED d_exc
    /\ UNCHANGED <<up, d_pos, d_log, df, d_slider, d_schema, d_top, d_overview,
                   d_userK, fbVars, gestVars>>

\* lines 81-92
TopValues ==
    /\ d_pc = "top"
    /\ LET cat == CatCols(df)
           tabs == TopTables(cat)
       IN  IF Len(cat) > 0
           THEN /\ d_page' = Append(d_page, "TopValues")
                /\ IF \E i \in 1..Len(tabs) : tabs[i].slot >= TopSlots(Len(cat))
                   THEN /\ d_pc' = "crashed"
                        /\ d_exc' = "IndexError"
                        /\ UNCHANGED d_top
                   ELSE /\ d_top' = tabs
                        /\ d_pc' = "done"
                        /\ UNCHANGED d_exc
           ELSE /\ d_pc' = "done"
                /\ UNCHANGED <<d_page, d_top, d_exc>>
    /\ UNCHANGED <<up, d_pos, d_log, df, d_slider, d_schema, d_overview,
                   d_userK, fbVars, gestVars>>

\* the user moves the preview slider of a finished run: the script runs
\* again from the top on the same upload
SliderChange ==
    /\ d_pc \in {"done", "crashed"}
    /\ d_slider # NoSlider
    /\ \E k \in {d_slider.min_value, d_slider.max_value} :
         /\ d_userK # <<k>>
         /\ d_userK' = <<k>>
    /\ FreshRun
    /\ UNCHANGED <<up, fbVars, gestVars>>

(***************************************************************************)
(* The finger counter (src/aifinger.py).  A hand is the detector's list of *)
(* 21 landmarks, 0..20, each with an x and a y; the coordinates that       *)
(* count_fingers never reads are held at 0.  The detector's result is kept *)
(* as the number of hands left; the landmarks of a hand are drawn when the *)
(* for loop reaches it.                                                    *)
(***************************************************************************)
MaxHands == 2

\* Every coordinate count_fingers reads is read in exactly one comparison,
\* and the pairs compared share no coordinate: two levels give each pair
\* all three orders (below, level, above)
Coord == {0, 1}
LandmarkIds == 0..20
XRead == {3, 4}
YRead == {6, 8, 10, 12, 14, 16, 18, 20}

Hands ==
    {[i \in LandmarkIds |->
        [x |-> IF i \in XRead THEN a[i] ELSE 0,
         y |-> IF i \in YRead THEN b[i] ELSE 0]] :
     a \in [XRead -> Coord], b \in [YRead -> Coord]}

NoHand == [i \in LandmarkIds |-> [x |-> 0 - 1, y |-> 0 - 1]]
NoCount == 0 - 1
NoKey == 0 - 2

tip_ids == <<4, 8, 12, 16, 20>>

\* "<=" in place of the "<" of line 24
TipAboveOrLevel(h, id) == h[tip_ids[id + 1]].y <= h[tip_ids[id + 1] - 2].y

\* the two comparisons of count_fingers
ThumbOut(h) == h[tip_ids[1]].x < h[tip_ids[1] - 1].x
TipAbove(h, id) == h[tip_ids[id + 1]].y < h[tip_ids[id + 1] - 2].y

\* the loop "for id in range(1, 5)"
RECURSIVE FingerLoop(_, _, _)
FingerLoop(h, id, fingers) ==
    IF id >= 5 THEN fingers
    ELSE FingerLoop(h, id + 1,
                    Append(fingers, IF TipAbove(h, id) THEN 1 ELSE 0))

\* the list "fingers" at the return of count_fingers
FingerList(h) == FingerLoop(h, 1, <<IF ThumbOut(h) THEN 1 ELSE 0>>)

RECURSIVE SumSeq(_)
SumSeq(s) == IF s = <<>> THEN 0 ELSE s[1] + SumSeq(Tail(s))

count_fingers(h) == SumSeq(FingerList(h))

\* line 39
Parity(finger_count) == IF finger_count % 2 = 0 THEN "Even" ELSE "Odd"

\* key codes cv2.waitKey returns: none pressed, q, Q, Esc, q with a
\* modifier bit above the low byte
KeyCodes == {0 - 1, 113, 81, 27, 113 + 256}
OrdQ == 113

\* the key code compared without the "& 0xFF" of line 48
QuitUnmasked(key) == key = OrdQ

\* cv2.waitKey(1) & 0xFF == ord('q')
QuitObserved(key) == key % 256 = OrdQ

\* line 32: cap.read(); the flag "success" is never looked at
ReadFrame ==
    /\ g_pc = "read"
    /\ \E success \in BOOLEAN : g_frame' = IF success THEN "image" ELSE "none"
    /\ g_trace' = <<"read">>
    /\ g_key' = NoKey
    /\ g_pc' = "detect"
    /\ UNCHANGED <<g_cap, g_win, g_found, g_hands, g_hand, g_fingers, g_count,
                   g_parity, fbVars, dashVars>>

\* lines 33-36: cvtColor raises cv2.error on the None of a failed read
Detect ==
    /\ g_pc = "detect"
    /\ IF g_frame = "none"
       THEN /\ g_pc' = "crashed"
            /\ UNCHANGED <<g_found, g_hands, g_trace>>
       ELSE /\ \E k \in 0..MaxHands :
                 /\ g_found' = k
                 /\ g_hands' = k
                 /\ g_pc' = IF k > 0 THEN "hands" ELSE "show"
            /\ g_trace' = Append(g_trace, "detect")
    /\ UNCHANGED <<g_cap, g_win, g_frame, g_hand, g_fingers, g_count, g_parity,
                   g_key, fbVars, dashVars>>

\* lines 37-39: the for loop takes the next hand, any of Hands, and
\* classifies it
Classify ==
    /\ g_pc = "hands"
    /\ g_hands > 0
    /\ \E h \in Hands :
         /\ g_hand' = h
         /\ g_fingers' = FingerList(h)
         /\ g_count' = count_fingers(h)
         /\ g_parity' = Parity(count_fingers(h))
    /\ g_trace' = Append(g_trace, "classify")
    /\ g_pc' = "annotate"
    /\ UNCHANGED <<g_cap, g_win, g_frame, g_found, g_hands, g_key, fbVars,
                   dashVars>>

\* lines 41-44: the text and the skeleton are drawn; the loop is done with
\* this hand
Annotate ==
    /\ g_pc = "annotate"
    /\ g_hand' = NoHand
    /\ g_fingers' = <<>>
    /\ g_hands' = g_hands - 1
    /\ g_trace' = Append(g_trace, "annotate")
    /\ g_pc' = IF g_hands - 1 > 0 THEN "hands" ELSE "show"
    /\ UNCHANGED <<g_cap, g_win, g_frame, g_found, g_count, g_parity, g_key,
                   fbVars, dashVars>>

\* line 46
Show ==
    /\ g_pc = "show"
    /\ g_win' = "shown"
    /\ g_trace' = Append(g_trace, "show")
    /\ g_pc' = "poll"
    /\ UNCHANGED <<g_cap, g_frame, g_found, g_hands, g_hand, g_fingers, g_count,
                   g_parity, g_key, fbVars, dashVars>>

\* lines 48-49
Poll ==
    /\ g_pc = "poll"
    /\ \E key \in KeyCodes :
         /\ g_key' = key
         /\ g_pc' = IF QuitObserved(key) THEN "release" ELSE "read"
    /\ g_trace' = Append(g_trace, "poll")
    /\ UNCHANGED <<g_cap, g_win, g_frame, g_found, g_hands, g_hand, g_fingers,
                   g_count, g_parity, fbVars, dashVars>>

\* line 51
Release ==
    /\ g_pc = "release"
    /\ g_cap' = "released"
    /\ g_pc' = "destroy"
    /\ UNCHANGED <<g_win, g_frame, g_found, g_hands, g_hand, g_fingers, g_count,
                   g_parity, g_trace, g_key, fbVars, dashVars>>

\* line 52
Destroy ==
    /\ g_pc = "destroy"
    /\ g_win' = "destroyed"
    /\ g_pc' = "end"
    /\ UNCHANGED <<g_cap, g_frame, g_found, g_hands, g_hand, g_fingers, g_count,
                   g_parity, g_trace, g_key, fbVars, dashVars>>

(***************************************************************************)
(* The specifications.                                                     *)
(***************************************************************************)
IdleFormat ==
    /\ fb_arg = Num(<<>>, 0)
    /\ fb_pc = "off"
    /\ fb_out = Fell

IdleDash ==
    /\ up = NoUpload
    /\ d_pc = "off"
    /\ d_pos = 0
    /\ d_log = <<>>
    /\ df = NoDf
    /\ d_page = <<>>
    /\ d_slider = NoSlider
    /\ d_schema = <<>>
    /\ d_top = <<>>
    /\ d_overview = NoOverview
    /\ d_userK = NoChoice
    /\ d_exc = "none"

IdleGesture ==
    /\ g_pc = "off"
    /\ g_cap = "closed"
    /\ g_win = "none"
    /\ g_frame = "none"
    /\ g_found = 0
    /\ g_hands = 0
    /\ g_hand = NoHand
    /\ g_fingers = <<>>
    /\ g_count = NoCount
    /\ g_parity = "unset"
    /\ g_trace = <<>>
    /\ g_key = NoKey

\* byte counts format_bytes is applied to: 0, and the numbers of at most
\* MaxSig significant limbs below 1024^(MaxSig + MaxExp)
FbInputs ==
    {Num(<<>>, 0)}
    \cup {Num(s, e) : s \in {t \in UNION {[1..k -> LimbVals] : k \in 1..MaxSig} :
                               t[Len(t)] # 0},
                      e \in 0..MaxExp}

FbCall ==
    /\ fb_pc = "call"
    /\ fb_out' = format_bytes(fb_arg)
    /\ fb_pc' = "done"
    /\ UNCHANGED <<fb_arg, dashVars, gestVars>>

InitFormat ==
    /\ fb_arg \in FbInputs
    /\ fb_pc = "call"
    /\ fb_out = Fell
    /\ IdleDash
    /\ IdleGesture

NextFormat == FbCall

SpecFormat == InitFormat /\ [][NextFormat]_vars

\* the page before any upload: line 20
InitDash ==
    /\ up = NoUpload
    /\ d_pc = "idle"
    /\ d_pos = 0
    /\ d_log = <<>>
    /\ df = NoDf
    /\ d_page = <<"info">>
    /\ d_slider = NoSlider
    /\ d_schema = <<>>
    /\ d_top = <<>>
    /\ d_overview = NoOverview
    /\ d_userK = NoChoice
    /\ d_exc = "none"
    /\ IdleFormat
    /\ IdleGesture

NextDash ==
    \/ Upload
    \/ StrictParse
    \/ LossyParse
    \/ Overview
    \/ Preview
    \/ Schema
    \/ Summary
    \/ TopValues
    \/ SliderChange

SpecDash == InitDash /\ [][NextDash]_vars

\* lines 5-10 of aifinger.py: the detector is set up and the camera opened
InitGesture ==
    /\ g_pc = "read"
    /\ g_cap = "open"
    /\ g_win = "none"
    /\ g_frame = "none"
    /\ g_found = 0
    /\ g_hands = 0
    /\ g_hand = NoHand
    /\ g_fingers = <<>>
    /\ g_count = NoCount
    /\ g_parity = "unset"
    /\ g_trace = <<>>
    /\ g_key = NoKey
    /\ IdleFormat
    /\ IdleDash

NextGesture ==
    \/ ReadFrame
    \/ Detect
    \/ Classify
    \/ Annotate
    \/ Show
    \/ Poll
    \/ Release
    \/ Destroy

SpecGesture == InitGesture /\ [][NextGesture]_vars

(***************************************************************************)
(* The claims.                                                             *)
(***************************************************************************)
InPage(e) == \E i \in 1..Len(d_page) : d_page[i] = e
Finished == d_pc \in {"done", "stopped", "crashed"}
Sections == {"Overview", "Preview", "Schema", "Summary", "TopValues"}
NoSection == \A e \in Sections : ~InPage(e)

\* The loader's three paths, checked on its own: the first attempt is the
\* strict one, from the start of the stream; a lossy attempt is the second
\* attempt, follows a strict attempt that ended in a decode error, and reads
\* from position 0; a strict attempt that ended otherwise is followed by the
\* error message and the stop, and by no other attempt; a file whose only
\* defect is an invalid byte sequence leaves the loader with its dataset.
LoaderPolicy ==
    /\ Len(d_log) <= 2
    /\ d_log # <<>> => d_log[1].mode = "strict" /\ d_log[1].from = 0
    /\ \A i \in 1..Len(d_log) :
         d_log[i].mode = "lossy" =>
           /\ i = 2
           /\ d_log[1].result = "UnicodeDecodeError"
           /\ d_log[i].from = 0
    /\ (d_log # <<>> /\ d_log[1].result = "UnicodeDecodeError") =>
         (d_pc = "fallback" \/ Len(d_log) = 2)
    /\ (d_log # <<>> /\ d_log[1].result = "other") =>
         /\ Len(d_log) = 1
         /\ d_pc = "stopped"
         /\ d_page = <<"error">>
         /\ df = NoDf
    /\ (up.defects = <<"decode">> /\ d_pc \notin {"load", "fallback"}) =>
         /\ df = up.table
         /\ ~InPage("error")
         /\ d_exc # "ParserError"

\* C1: the loader tries the strict parse first, the lossy parse only after a
\* decode error of the strict one, once and from the start of the stream,
\* and reports any other failure of the strict parse and halts; a run on an
\* upload whose only defect is an invalid byte sequence ends with the
\* dataset parsed and the report rendered, not with an error (stated for
\* the datasets whose slider call is regular).
C1_LoaderPaths ==
    /\ LoaderPolicy
    /\ (up.defects = <<"decode">> /\ Finished /\ SliderCallRegular(d_slider)) =>
         /\ d_pc = "done"
         /\ d_exc = "none"
         /\ \A e \in Sections \ {"TopValues"} : InPage(e)

\* C2: a run leaves the loader either with the dataset parsed and the
\* report being rendered, or with the inline error message, the halt and no
\* report section; no parse exception leaves the loader uncaught, whichever
\* attempt raised it.
C2_TwoOutcomes ==
    Finished =>
      /\ \/ /\ df # NoDf
            /\ ~InPage("error")
            /\ InPage("Overview")
         \/ /\ d_pc = "stopped"
            /\ df = NoDf
            /\ InPage("error")
            /\ NoSection
      /\ d_exc # "ParserError"

\* the unit the claim names for n: index min(4, times n can be divided by
\* 1024 before it is below 1024)
ClaimedUnit(n) == UNITS[Min(4, Max(0, Len(n.sig) + n.exp - 1)) + 1]
ClaimedMagnitude(n) ==
    Format2f(Num(n.sig, n.exp - Min(4, Max(0, Len(n.sig) + n.exp - 1))))
Text(w, c, u) == [kind |-> "str", whole |-> Num(w, 0), cents |-> c, unit |-> u]

\* C3: for every byte count n >= 0 format_bytes returns a string; its unit
\* is the one of index min(4, divisions by 1024 until below 1024), its
\* magnitude n / 1024^k with 2 decimals; 0 gives "0.00 B", 1023 gives
\* "1023.00 B", 1024 gives "1.00 KiB", 1024^4 gives "1.00 TiB".
C3_FormatBytes ==
    fb_pc = "done" =>
      /\ fb_out.kind = "str"
      /\ fb_out.unit = ClaimedUnit(fb_arg)
      /\ fb_out.whole = ClaimedMagnitude(fb_arg).whole
      /\ fb_out.cents = ClaimedMagnitude(fb_arg).cents
      /\ fb_arg = Num(<<>>, 0) => fb_out = Text(<<>>, 0, "B")
      /\ fb_arg = Num(<<1023>>, 0) => fb_out = Text(<<1023>>, 0, "B")
      /\ fb_arg = Num(<<1>>, 1) => fb_out = Text(<<1>>, 0, "KiB")
      /\ fb_arg = Num(<<1>>, 4) => fb_out = Text(<<1>>, 0, "TiB")

\* C4: the magnitude printed, after the rounding to 2 decimals, is below 1024
\* whenever the unit printed is B, KiB, MiB or GiB.
C4_ShownBelow1024 ==
    (fb_pc = "done" /\ fb_out.kind = "str" /\ fb_out.unit # "TiB") =>
      Below1024(fb_out.whole)

\* C5: the preview size K lies in [5, min(1000, max(5, row_count))], for
\* the default as for a value the user sets; the range is not empty, its
\* upper bound is between 5 and 1000, and min(K, row_count) rows are shown.
C5_PreviewInRange ==
    (InPage("Preview") /\ d_slider # NoSlider) =>
      /\ d_slider.min_value = 5
      /\ d_slider.max_value = Min(1000, Max(5, df.rows))
      /\ d_slider.min_value <= d_slider.max_value
      /\ d_slider.max_value >= 5 /\ d_slider.max_value <= 1000
      /\ d_slider.rows_to_show >= d_slider.min_value
      /\ d_slider.rows_to_show <= d_slider.max_value
      /\ d_slider.shown = Min(d_slider.rows_to_show, df.rows)

Abs(a) == IF a < 0 THEN 0 - a ELSE a

\* C6: the schema report has one row per column of the dataset; in each,
\* 0 <= missing <= row_count; missing_% is 0 when row_count is 0; otherwise
\* it is 100 * missing / row_count rounded to 2 decimals (within half a
\* hundredth of the exact value), between 0 and 100: 1 of 3 gives 33.33 and
\* 0 missing gives 0.
C6_SchemaReport ==
    InPage("Schema") =>
      /\ Len(d_schema) = Len(df.cols)
      /\ \A i \in 1..Len(df.cols) :
           Cardinality({j \in 1..Len(d_schema) :
                          /\ d_schema[j].column = df.cols[i].name
                          /\ d_schema[j].missing = df.cols[i].missing}) = 1
      /\ \A j \in 1..Len(d_schema) :
           LET r == d_schema[j]
               n == df.rows
           IN  /\ r.missing >= 0 /\ r.missing <= n
               /\ n = 0 => r.pct = 0
               /\ n > 0 => /\ r.pct >= 0 /\ r.pct <= 100 * 100
                           /\ 2 * Abs(r.pct * n - 100 * 100 * r.missing) <= n
               /\ (n = 3 /\ r.missing = 1) => r.pct = 3333
               /\ r.missing = 0 => r.pct = 0

\* a dataset of no rows went through the schema section
C6_Witness ==
    /\ InPage("Schema")
    /\ df.rows = 0
    /\ Len(d_schema) = 2
    /\ \A j \in 1..Len(d_schema) : d_schema[j].pct = 0
    /\ d_pc = "summary"

HasNumeric == \E i \in 1..Len(df.cols) : df.cols[i].dtype \in {"int64", "float64"}
HasCategorical ==
    \E i \in 1..Len(df.cols) : df.cols[i].dtype \in {"object", "category", "bool"}

\* C7: for every parsed dataset the numeric table is shown iff there is a
\* numeric column and its placeholder otherwise, the categorical table
\* iff there is a categorical column and its placeholder otherwise, never
\* both and never neither; a dataset without numeric (or without
\* categorical) columns reaches the end of the report without an error
\* (stated of the runs that reach the Summary Statistics section after a
\* regular slider call).
C7_TableOrPlaceholder ==
    (InPage("Summary") /\ SliderCallRegular(d_slider)) =>
      /\ InPage("num_table") <=> HasNumeric
      /\ InPage("num_info") <=> ~HasNumeric
      /\ InPage("cat_table") <=> HasCategorical
      /\ InPage("cat_info") <=> ~HasCategorical
      /\ Finished => d_pc = "done" /\ d_exc = "none"

\* C10: the Top values section is rendered iff the dataset has a
\* categorical column; it has min(3, categorical columns) slots, the i-th
\* categorical column (from 0) is in slot i mod 3, which is one of the slots,
\* every categorical column is placed once, and a table has at most 10 rows,
\* the missing values being one of the values counted (stated of the runs
\* that reach the Summary Statistics section after a regular slider call).
C10_TopValues ==
    (InPage("Summary") /\ SliderCallRegular(d_slider) /\ Finished) =>
      /\ InPage("TopValues") <=> HasCategorical
      /\ Len(d_top) = Len(CatCols(df))
      /\ \A i \in 1..Len(d_top) :
           /\ d_top[i].column = CatCols(df)[i].name
           /\ d_top[i].slot = (i - 1) % 3
           /\ d_top[i].slot < Min(3, Len(CatCols(df)))
           /\ d_top[i].rows <= 10
           /\ (CatCols(df)[i].missing > 0 /\ CatCols(df)[i].distinct < 10) =>
                d_top[i].nan_row

\* C8: the fingers list of a classified hand has 5 entries, each 0 or 1:
\* the thumb's is 1 iff landmark 4's x is below landmark 3's x, the one of
\* tip t in {8, 12, 16, 20} is 1 iff landmark t's y is below landmark
\* (t-2)'s y; finger_count is their sum, in 0..5, and the label is "Even"
\* iff it is 0, 2 or 4 and "Odd" otherwise, whatever was counted before.
C8_FingerVector ==
    g_hand # NoHand =>
      /\ Len(g_fingers) = 5
      /\ \A i \in 1..5 : g_fingers[i] \in {0, 1}
      /\ g_fingers[1] = 1 <=> g_hand[4].x < g_hand[3].x
      /\ \A j \in 1..4 :
           g_fingers[j + 1] = 1 <=> g_hand[4 * j + 4].y < g_hand[4 * j + 2].y
      /\ g_count = g_fingers[1] + g_fingers[2] + g_fingers[3] + g_fingers[4]
                   + g_fingers[5]
      /\ g_count \in 0..5
      /\ g_parity = "Even" <=> g_count \in {0, 2, 4}
      /\ g_parity = "Odd" <=> g_count \in {1, 3, 5}

\* the second hand of a frame is classified, with a level thumb and a level
\* index finger, three fingers up, after a hand that had none up
C8_Witness ==
    /\ g_pc = "annotate"
    /\ g_found = 2 /\ g_hands = 1
    /\ g_hand # NoHand
    /\ g_hand[4].x = g_hand[3].x
    /\ g_hand[8].y = g_hand[6].y
    /\ g_count = 3 /\ g_parity = "Odd"

RECURSIVE PerHand(_)
PerHand(k) ==
    IF k = 0 THEN <<>> ELSE <<"classify", "annotate">> \o PerHand(k - 1)
FullIteration(k) == <<"read", "detect">> \o PerHand(k) \o <<"show", "poll">>
IsPrefix(s, t) == Len(s) <= Len(t) /\ s = SubSeq(t, 1, Len(s))
TraceInOrder ==
    IF Len(g_trace) <= 1 THEN g_trace \in {<<>>, <<"read">>}
    ELSE IsPrefix(g_trace, FullIteration(g_found))
IterationComplete == g_trace = FullIteration(g_found)
InLoop == g_pc \in {"read", "detect", "hands", "annotate", "show", "poll"}

\* C9 as stated: every iteration makes, in order, one frame read, one
\* detector call, one classify-and-annotate step per hand, one display and
\* one poll; the loop ends exactly when a poll observes 'q'; after that the
\* capture is released and the windows destroyed.
C9_EveryIterationPolls ==
    /\ TraceInOrder
    /\ g_pc = "read" => g_trace = <<>> \/ (IterationComplete /\ g_key % 256 # 113)
    /\ ~InLoop => IterationComplete /\ g_key % 256 = 113
    /\ g_cap = "released" => g_pc \in {"destroy", "end"}
    /\ g_pc = "end" => g_cap = "released" /\ g_win = "destroyed"

C9_Inv ==
    /\ TraceInOrder
    /\ g_pc = "read" => g_trace = <<>> \/ (IterationComplete /\ g_key % 256 # 113)
    /\ g_pc \in {"release", "destroy", "end"} =>
         IterationComplete /\ g_key % 256 = 113
    /\ g_pc = "crashed" =>
         /\ g_frame = "none"
         /\ g_trace = <<"read">>
         /\ g_cap = "open"
         /\ g_win # "destroyed"
    /\ (g_frame = "image" /\ g_trace # <<>>) => g_pc # "crashed"
    /\ g_cap = "released" => g_pc \in {"destroy", "end"}
    /\ g_pc = "end" => g_cap = "released" /\ g_win = "destroyed"

C9_Step ==
    /\ g_pc = "poll" => (g_pc' = "read" <=> g_key' % 256 # 113)
    /\ g_pc = "poll" => (g_pc' = "release" <=> g_key' % 256 = 113)
    /\ g_cap = "released" =>
         /\ g_cap' = "released"
         /\ g_trace' = g_trace
         /\ g_frame' = g_frame
         /\ g_win' \in {g_win, "destroyed"}
    /\ g_pc = "crashed" => g_pc' = "crashed" /\ g_trace' = g_trace

\* C9, amended: an iteration whose frame read succeeds makes, in order, the
\* read, one detector call, one classify-and-annotate step per hand, one
\* display and one poll, and the next iteration starts iff the poll did
\* not observe 'q'; the loop ends when a poll observes 'q', and then the
\* capture is released, the windows are destroyed and nothing is read or
\* displayed any more; an iteration whose frame read fails ends the program
\* at the colour conversion, with no detector call, display, poll or
\* release.
C9_LoopProtocol == [](C9_Inv) /\ [][C9_Step]_vars

\* the loop ended through the quit key after a frame with two hands
C9_Witness ==
    /\ g_pc = "end"
    /\ g_cap = "released"
    /\ g_win = "destroyed"
    /\ g_found = 2
    /\ g_key = 113 + 256
    /\ g_trace = FullIteration(2)

====
